---- MODULE Spec2Model ----
(***************************************************************************)
(* Model of the pop-up buoy release server (src/app.py).                   *)
(*                                                                         *)
(* The controller process reads config.yaml, bootstraps or reconciles the  *)
(* JSON status file, drives every output line LOW and then serves          *)
(* requests.  A release request for a registered id starts a daemon thread *)
(* (release_thread) that energises the line, holds, polls the buoy with    *)
(* ping and finally de-energises the line and updates the status file.     *)
(*                                                                         *)
(* Python strings made of digits (popup ids, gpio numbers, sleeptime_h)    *)
(* are sequences of digit characters, so that str() and int() are modelled *)
(* by what they do.  Time is counted in whole units.                        *)
(***************************************************************************)
EXTENDS Integers, Sequences, FiniteSets, TLC

VARIABLES
    phase,              \* "serving" (app.run reached) or "aborted" (__main__ raised)
    boots,              \* number of times __main__ has run
    now,                \* wall clock (datetime.now() / time.time())
    file,               \* the status file popup_status_file
    popup_status,       \* module global popup_status (bound only by the else branch of __main__)
    current_time,       \* module global: datetime.now() as read by __main__
    popups_timestamps,  \* module global: id -> scheduled date, from config.yaml
    popups_release,     \* module global: id -> 0/1, computed once in __main__
    line,               \* level of every GPIO output pin
    moved,              \* per id, number of copy_and_delete_files calls made for it
    tasks,              \* the release_thread threads of this process
    resp                \* the HTTP response produced by the step just taken

vars == <<phase, boots, now, file, popup_status, current_time, popups_timestamps,
          popups_release, line, moved, tasks, resp>>

----------------------------------------------------------------------------
(* Bounds of the model *)

MaxTasks == 2       \* release threads started per run of the process
MaxBoots == 2       \* runs of __main__ (first start + restarts)
MaxTime == 2        \* the wall clock saturates here; every date is <= MaxTime

(* Configuration values (config.yaml), in time units *)

release_time == 1
max_release_time == 1
offset_seconds == 2
sampling_time_hours == 6

----------------------------------------------------------------------------
(* str() and int() on non-negative integers *)

Digits == <<"0", "1", "2", "3", "4", "5", "6", "7", "8", "9">>

RECURSIVE str(_)
str(n) ==
    IF n < 10 THEN <<Digits[n + 1]>>
    ELSE Append(str(n \div 10), Digits[(n % 10) + 1])

DigitVal(c) == CHOOSE i \in 0..9 : Digits[i + 1] = c

RECURSIVE int(_)
int(s) ==
    IF Len(s) = 1 THEN DigitVal(s[1])
    ELSE 10 * int(SubSeq(s, 1, Len(s) - 1)) + DigitVal(s[Len(s)])

----------------------------------------------------------------------------
(* config.yaml: popup_parameters *)

\* id and gpio of every configured pop-up, as the integers of the YAML file
ConfigGpio == (1 :> 11) @@ (2 :> 13)

\* releaseMode of every configured pop-up
ConfigReleaseMode == (1 :> 1) @@ (2 :> 1)

\* the "date" entries the operator may have put in config.yaml at a start
ConfigDates == { (1 :> 1) @@ (2 :> 2), (1 :> 2) @@ (2 :> 2) }

\* popups_pins: str(id) -> str(gpio)
popups_pins == [k \in {str(i) : i \in DOMAIN ConfigGpio} |->
                  str(ConfigGpio[CHOOSE i \in DOMAIN ConfigGpio : str(i) = k])]

\* popups_release_mode: str(id) -> releaseMode
popups_release_mode == [k \in DOMAIN popups_pins |->
                  ConfigReleaseMode[CHOOSE i \in DOMAIN ConfigGpio : str(i) = k]]

\* popups_timestamps for one choice of dates
TimestampsOf(dates) == [k \in DOMAIN popups_pins |->
                  dates[CHOOSE i \in DOMAIN ConfigGpio : str(i) = k]]

Ids == DOMAIN popups_pins

\* pin = int(popups_pins[popup_id])
PinOf(popup_id) == int(popups_pins[popup_id])

Pins == {PinOf(k) : k \in Ids}

\* ids a client may put in the URL: the registered ones and an unregistered one
RequestIds == Ids \cup {str(9)}

----------------------------------------------------------------------------
(* The status file *)

\* one entry of the "permission" section
PermRec(flag, mode, sleep) ==
    [releaseFlag |-> flag, releaseMode |-> mode, sleeptime_h |-> sleep]

NoKeys == [k \in {} |-> 0]

\* no file on disk
NoFile == [exists |-> FALSE, releasedBuoys |-> NoKeys,
           hasPermission |-> FALSE, permission |-> NoKeys]

\* a generated file with an entry for every id a client may name
GeneratedStatus_AllRequestIds ==
    [exists |-> TRUE,
     releasedBuoys |-> [k \in DOMAIN popups_pins \cup {str(9)} |-> FALSE],
     hasPermission |-> FALSE,
     permission |-> NoKeys]

\* the file __main__ generates when none exists: {"releasedBuoys": {id: false}}
GeneratedStatus ==
    [exists |-> TRUE,
     releasedBuoys |-> [k \in DOMAIN popups_pins |-> FALSE],
     hasPermission |-> FALSE,
     permission |-> NoKeys]

\* a file put in place by the operator before the first start, with both sections
ProvisionedStatus(flags) ==
    [exists |-> TRUE,
     releasedBuoys |-> [k \in Ids |-> FALSE],
     hasPermission |-> TRUE,
     permission |-> [k \in Ids |-> PermRec(flags[k], 0, str(0))]]

ProvisionedFlags == { [k \in Ids |-> 0] }

InitialFiles == {NoFile} \cup {ProvisionedStatus(fl) : fl \in ProvisionedFlags}

----------------------------------------------------------------------------
(* __main__ *)

\* IsDue without the grace offset and with an inclusive comparison
IsDue_NoOffset(timestamp, cur) == timestamp <= cur

\* popups_timestamps[popup_id] < current_time + timedelta(seconds=offset_seconds)
IsDue(timestamp, cur) == timestamp < cur + offset_seconds

\* popups_release as the config loop computes it
ReleaseOf(timestamps, cur) ==
    [k \in DOMAIN timestamps |-> IF IsDue(timestamps[k], cur) THEN 1 ELSE 0]

\* ReconcileEntry that never stores the flag it has acted on
ReconcileEntry_KeepsFlag(entry, release_value, mode) ==
    [entry EXCEPT !.releaseMode = mode, !.sleeptime_h = str(sampling_time_hours)]

\* ReconcileEntry that stores the freshly computed release value as the flag
ReconcileEntry_Recomputes(entry, release_value, mode) ==
    [entry EXCEPT !.releaseMode = mode, !.sleeptime_h = str(sampling_time_hours),
                  !.releaseFlag = release_value]

\* one iteration of the loop of process_release, on the entry of popup_id
ReconcileEntry(entry, release_value, mode) ==
    LET upd == [entry EXCEPT !.releaseMode = mode,
                             !.sleeptime_h = str(sampling_time_hours)]
    IN  IF entry.releaseFlag = 1 /\ release_value = 1 THEN upd
        ELSE IF entry.releaseFlag = 0 /\ release_value = 1
             THEN [upd EXCEPT !.releaseFlag = 1]
             ELSE upd

\* the ids for which process_release calls copy_and_delete_files
Relocated(f, release) ==
    {k \in DOMAIN release : f.permission[k].releaseFlag = 0 /\ release[k] = 1}

\* process_release: the file it saves
process_release(f, release, modes) ==
    [f EXCEPT !.permission =
        [k \in DOMAIN f.permission |->
            IF k \in DOMAIN release
            THEN ReconcileEntry(f.permission[k], release[k], modes[k])
            ELSE f.permission[k]]]

\* process_release raises KeyError when the file has no "permission" section
\* or no entry for a configured id
ReconcileRaises(f, release) ==
    \/ ~f.hasPermission
    \/ \E k \in DOMAIN release : k \notin DOMAIN f.permission

\* the module global popup_status: not bound to any value, or bound to the
\* dictionary loaded from the file plus the keys release threads added to it
Unbound == [bound |-> FALSE, loaded |-> NoFile, added |-> {}]

Loaded(f) == [bound |-> TRUE, loaded |-> f, added |-> {}]

\* __main__ from the top to app.run, on the file f and line levels ln found at
\* start, with the dates read from config.yaml and the clock value cur
Main(f, ln, mv, dates, cur) ==
    LET ts      == TimestampsOf(dates)
        release == ReleaseOf(ts, cur)
        allLow  == [p \in DOMAIN ln |-> IF p \in Pins THEN "LOW" ELSE ln[p]]
    IN  IF ~f.exists
        THEN [phase |-> "serving", file |-> GeneratedStatus, popup_status |-> Unbound,
              timestamps |-> ts, release |-> release, line |-> allLow, moved |-> mv]
        ELSE IF ReconcileRaises(f, release)
        THEN [phase |-> "aborted", file |-> f, popup_status |-> Loaded(f),
              timestamps |-> ts, release |-> release, line |-> ln, moved |-> mv]
        ELSE [phase |-> "serving", file |-> process_release(f, release, popups_release_mode),
              popup_status |-> Loaded(f),
              timestamps |-> ts, release |-> release, line |-> allLow,
              moved |-> [k \in DOMAIN mv |->
                           IF k \in Relocated(f, release) THEN mv[k] + 1 ELSE mv[k]]]

----------------------------------------------------------------------------
(* Release threads *)

Slots == 1..MaxTasks

\* a slot with no thread in it; sleeps counts the time.sleep calls that have
\* returned, probes the ping_host calls made, reach is what the last one returned
NoTask == [pc |-> "idle", id |-> <<>>, elapsed |-> 0,
           timeout |-> FALSE, status |-> NoFile, writes |-> 0,
           sleeps |-> 0, probes |-> 0, reach |-> "none"]

\* a thread that has ended: only what it did is kept
Ended(t, how) == [NoTask EXCEPT !.pc = how, !.id = t.id, !.timeout = t.timeout,
                                !.elapsed = IF t.timeout THEN t.elapsed ELSE 0,
                                !.writes = t.writes, !.sleeps = t.sleeps,
                                !.probes = t.probes, !.reach = t.reach]

EndStates == {"Released", "TimedOut", "ProbeRaised", "StoreRaised"}

Min(a, b) == IF a < b THEN a ELSE b

\* time.time() - init only matters up to the first value above max_release_time
ElapsedCap == max_release_time + 1

\* the outcomes of subprocess.run(['ping', ...], timeout=5):
\* return code 0, another return code, TimeoutExpired, any other exception
ProbeOutcomes == {"rc0", "rcNonZero", "TimeoutExpired", "OSError"}

\* ping_host: TRUE / FALSE, or "raise" when the exception is not caught
ping_host(outcome) ==
    CASE outcome = "rc0"            -> "True"
      [] outcome = "rcNonZero"      -> "False"
      [] outcome = "TimeoutExpired" -> "False"
      [] OTHER                      -> "raise"

\* the deadline test with >= in place of >
DeadlinePassed_Inclusive(elapsed) == elapsed >= max_release_time

\* (time.time() - init) > max_release_time
DeadlinePassed(elapsed) == elapsed > max_release_time

NoResp == [op |-> "none", id |-> <<>>, code |-> 0, success |-> FALSE, permission |-> <<>>]

\* lines 115-119: GPIO.output(pin, GPIO.HIGH), then the hold sleep begins
Activate(s) ==
    /\ phase = "serving"
    /\ tasks[s].pc = "start"
    /\ line' = [line EXCEPT ![PinOf(tasks[s].id)] = "HIGH"]
    /\ tasks' = [tasks EXCEPT ![s].pc = "hold"]
    /\ resp' = NoResp
    /\ UNCHANGED <<phase, boots, now, file, popup_status, current_time, popups_timestamps,
                   popups_release, moved>>

\* lines 119-122: the hold sleep returns, init = time.time(), timeout = False
HoldWake(s) ==
    /\ phase = "serving"
    /\ tasks[s].pc = "hold"
    /\ tasks' = [tasks EXCEPT ![s].pc = "probe", ![s].elapsed = 0, ![s].timeout = FALSE,
                               ![s].sleeps = @ + 1]
    /\ resp' = NoResp
    /\ UNCHANGED <<phase, boots, now, file, popup_status, current_time, popups_timestamps,
                   popups_release, line, moved>>

\* Probe as the condition of a loop that sleeps once before it tests the result
Probe_SleepsBeforeTest(s, outcome) ==
    /\ phase = "serving"
    /\ tasks[s].pc = "probe"
    /\ tasks' = [tasks EXCEPT ![s] =
          CASE ping_host(outcome) = "True"  ->
                    [@ EXCEPT !.pc = "poll_sleep", !.probes = @ + 1, !.reach = "True"]
            [] ping_host(outcome) = "False" ->
                    IF @.probes = 0
                    THEN [@ EXCEPT !.pc = "poll_sleep", !.probes = @ + 1, !.reach = "False"]
                    ELSE [@ EXCEPT !.pc = "lower", !.elapsed = 0, !.probes = @ + 1,
                                   !.reach = "False"]
            [] OTHER                        ->
                    Ended([@ EXCEPT !.probes = @ + 1, !.reach = "raise"], "ProbeRaised")]
    /\ resp' = NoResp
    /\ UNCHANGED <<phase, boots, now, file, popup_status, current_time, popups_timestamps,
                   popups_release, line, moved>>

\* line 122: the while condition ping_host(client_ip); on True the poll sleep begins
Probe(s, outcome) ==
    /\ phase = "serving"
    /\ tasks[s].pc = "probe"
    /\ tasks' = [tasks EXCEPT ![s] =
          CASE ping_host(outcome) = "True"  ->
                    [@ EXCEPT !.pc = "poll_sleep", !.probes = @ + 1, !.reach = "True"]
            [] ping_host(outcome) = "False" ->
                    [@ EXCEPT !.pc = "lower", !.elapsed = 0, !.probes = @ + 1,
                              !.reach = "False"]
            [] OTHER                        ->
                    Ended([@ EXCEPT !.probes = @ + 1, !.reach = "raise"], "ProbeRaised")]
    /\ resp' = NoResp
    /\ UNCHANGED <<phase, boots, now, file, popup_status, current_time, popups_timestamps,
                   popups_release, line, moved>>

\* Readings of a clock that may stand still over a sleep
Readings_NoProgress(elapsed) == elapsed .. ElapsedCap

\* the values time.time() - init may have after one more time.sleep(release_time),
\* when it was `elapsed` at the previous reading: the sleep lasts at least
\* release_time, and the ping before it and the scheduler add any delay
Readings(elapsed) == Min(elapsed + release_time, ElapsedCap) .. ElapsedCap

\* lines 124-127: the poll sleep returns and the deadline is tested on the
\* reading d of time.time() - init
PollWake(s, d) ==
    /\ phase = "serving"
    /\ tasks[s].pc = "poll_sleep"
    /\ d \in Readings(tasks[s].elapsed)
    /\ tasks' = [tasks EXCEPT ![s] =
          IF DeadlinePassed(d)
          THEN [@ EXCEPT !.pc = "lower", !.elapsed = d, !.timeout = TRUE,
                         !.sleeps = @ + 1]
          ELSE [@ EXCEPT !.pc = "probe", !.elapsed = d, !.sleeps = @ + 1]]
    /\ resp' = NoResp
    /\ UNCHANGED <<phase, boots, now, file, popup_status, current_time, popups_timestamps,
                   popups_release, line, moved>>

\* LowerLine without the branch on timeout: the status update always follows
LowerLine_AlwaysUpdates(s) ==
    /\ phase = "serving"
    /\ tasks[s].pc = "lower"
    /\ line' = [line EXCEPT ![PinOf(tasks[s].id)] = "LOW"]
    /\ tasks' = [tasks EXCEPT ![s].pc = "read"]
    /\ resp' = NoResp
    /\ UNCHANGED <<phase, boots, now, file, popup_status, current_time, popups_timestamps,
                   popups_release, moved>>

\* lines 128-132: GPIO.output(pin, GPIO.LOW) and the branch on timeout
LowerLine(s) ==
    /\ phase = "serving"
    /\ tasks[s].pc = "lower"
    /\ line' = [line EXCEPT ![PinOf(tasks[s].id)] = "LOW"]
    /\ tasks' = [tasks EXCEPT ![s] =
          IF @.timeout THEN Ended(@, "TimedOut") ELSE [@ EXCEPT !.pc = "read"]]
    /\ resp' = NoResp
    /\ UNCHANGED <<phase, boots, now, file, popup_status, current_time, popups_timestamps,
                   popups_release, moved>>

\* lines 137-140: status = json.load(f); popup_status[id] = True (NameError when
\* popup_status is not bound); status["releasedBuoys"][id] = True
ReadStatus(s) ==
    /\ phase = "serving"
    /\ tasks[s].pc = "read"
    /\ IF popup_status.bound
       THEN /\ popup_status' = [popup_status EXCEPT !.added = @ \cup {tasks[s].id}]
            /\ tasks' = [tasks EXCEPT ![s].pc = "write",
                   ![s].status = [file EXCEPT !.releasedBuoys =
                        [k \in DOMAIN file.releasedBuoys \cup {tasks[s].id} |->
                            IF k = tasks[s].id THEN TRUE ELSE file.releasedBuoys[k]]]]
       ELSE /\ popup_status' = popup_status
            /\ tasks' = [tasks EXCEPT ![s] = Ended(@, "StoreRaised")]
    /\ resp' = NoResp
    /\ UNCHANGED <<phase, boots, now, file, current_time, popups_timestamps, popups_release,
                   line, moved>>

\* lines 142-143: the whole file is rewritten from the thread's copy
WriteStatus(s) ==
    /\ phase = "serving"
    /\ tasks[s].pc = "write"
    /\ file' = tasks[s].status
    /\ tasks' = [tasks EXCEPT ![s] = Ended([@ EXCEPT !.writes = @ + 1], "Released")]
    /\ resp' = NoResp
    /\ UNCHANGED <<phase, boots, now, popup_status, current_time, popups_timestamps,
                   popups_release, line, moved>>

----------------------------------------------------------------------------
(* Request handlers *)

FreeSlots == {s \in Slots : tasks[s].pc = "idle"}

\* release_popup without the test that the id is registered
release_popup_NoCheck(popup_id) ==
    /\ FreeSlots # {}
    /\ LET s == CHOOSE x \in FreeSlots : \A y \in FreeSlots : x <= y
       IN  tasks' = [tasks EXCEPT ![s] = [NoTask EXCEPT !.pc = "start", !.id = popup_id]]
    /\ resp' = [op |-> "release", id |-> popup_id, code |-> 200,
                success |-> TRUE, permission |-> <<>>]

\* release_popup: FALSE for an id that is not registered, else a thread is started
release_popup(popup_id) ==
    IF popup_id \notin DOMAIN popups_pins
    THEN /\ resp' = [op |-> "release", id |-> popup_id, code |-> 500,
                     success |-> FALSE, permission |-> <<>>]
         /\ tasks' = tasks
    ELSE /\ FreeSlots # {}
         /\ LET s == CHOOSE x \in FreeSlots : \A y \in FreeSlots : x <= y
            IN  tasks' = [tasks EXCEPT ![s] = [NoTask EXCEPT !.pc = "start", !.id = popup_id]]
         /\ resp' = [op |-> "release", id |-> popup_id, code |-> 200,
                     success |-> TRUE, permission |-> <<>>]

\* GET /release/<popup_id>
release_callback(popup_id) ==
    /\ phase = "serving"
    /\ release_popup(popup_id)
    /\ UNCHANGED <<phase, boots, now, file, popup_status, current_time, popups_timestamps,
                   popups_release, line, moved>>

\* the response of GET /permission/<popup_id> on the file f
PermissionResponse(f, popup_id) ==
    IF ~f.exists \/ ~f.hasPermission
    THEN [op |-> "permission", id |-> popup_id, code |-> 500,
          success |-> FALSE, permission |-> <<>>]
    ELSE IF popup_id \in DOMAIN f.permission
    THEN [op |-> "permission", id |-> popup_id, code |-> 200,
          success |-> TRUE, permission |-> <<f.permission[popup_id]>>]
    ELSE [op |-> "permission", id |-> popup_id, code |-> 404,
          success |-> FALSE, permission |-> <<>>]

\* get_permission_status that also marks a registered buoy it is asked about
get_permission_status_Marking(popup_id) ==
    /\ phase = "serving"
    /\ resp' = PermissionResponse(file, popup_id)
    /\ file' = IF popup_id \in DOMAIN file.releasedBuoys
               THEN [file EXCEPT !.releasedBuoys[popup_id] = TRUE]
               ELSE file
    /\ UNCHANGED <<phase, boots, now, popup_status, current_time, popups_timestamps,
                   popups_release, line, moved, tasks>>

\* GET /permission/<popup_id>
get_permission_status(popup_id) ==
    /\ phase = "serving"
    /\ resp' = PermissionResponse(file, popup_id)
    /\ UNCHANGED <<phase, boots, now, file, popup_status, current_time, popups_timestamps,
                   popups_release, line, moved, tasks>>

----------------------------------------------------------------------------
(* Time and restarts *)

\* one unit of wall-clock time passes
Tick ==
    /\ now < MaxTime
    /\ now' = now + 1
    /\ resp' = NoResp
    /\ UNCHANGED <<phase, boots, file, popup_status, current_time, popups_timestamps,
                   popups_release, line, moved, tasks>>

\* the process is stopped (its daemon threads with it) and __main__ runs again
Restart(dates) ==
    /\ boots < MaxBoots
    /\ LET m == Main(file, line, moved, dates, now)
       IN  /\ phase' = m.phase
           /\ file' = m.file
           /\ popup_status' = m.popup_status
           /\ current_time' = now
           /\ popups_timestamps' = m.timestamps
           /\ popups_release' = m.release
           /\ line' = m.line
           /\ moved' = m.moved
    /\ boots' = boots + 1
    /\ tasks' = [s \in Slots |-> NoTask]
    /\ resp' = NoResp
    /\ now' = now

----------------------------------------------------------------------------
(* The state after the first run of __main__ *)

Init ==
    \E f0 \in InitialFiles, dates \in ConfigDates :
        LET m == Main(f0, [p \in Pins |-> "LOW"], [k \in Ids |-> 0], dates, 0)
        IN  /\ phase = m.phase
            /\ file = m.file
            /\ popup_status = m.popup_status
            /\ current_time = 0
            /\ popups_timestamps = m.timestamps
            /\ popups_release = m.release
            /\ line = m.line
            /\ moved = m.moved
            /\ boots = 1
            /\ now = 0
            /\ tasks = [s \in Slots |-> NoTask]
            /\ resp = NoResp

\* one run of the process: the request handlers, the threads and the clock
NextRun ==
    \/ \E id \in RequestIds : release_callback(id)
    \/ \E id \in RequestIds : get_permission_status(id)
    \/ \E s \in Slots : Activate(s)
    \/ \E s \in Slots : HoldWake(s)
    \/ \E s \in Slots, o \in ProbeOutcomes : Probe(s, o)
    \/ \E s \in Slots, d \in 0..ElapsedCap : PollWake(s, d)
    \/ \E s \in Slots : LowerLine(s)
    \/ \E s \in Slots : ReadStatus(s)
    \/ \E s \in Slots : WriteStatus(s)
    \/ Tick

Next ==
    \/ NextRun
    \/ \E dates \in ConfigDates : Restart(dates)

Spec == Init /\ [][Next]_vars

\* the steps of the release thread in slot s
ThreadStep(s) ==
    \/ Activate(s)
    \/ HoldWake(s)
    \/ \E o \in ProbeOutcomes : Probe(s, o)
    \/ \E d \in 0..ElapsedCap : PollWake(s, d)
    \/ LowerLine(s)
    \/ ReadStatus(s)
    \/ WriteStatus(s)

\* One run of the process, from its start to the moment it is stopped, in which
\* every started thread is scheduled again and again: time.sleep returns, and
\* subprocess.run returns or raises within its timeout of 5 seconds.
FairRun == Init /\ [][NextRun]_vars /\ \A s \in Slots : WF_vars(ThreadStep(s))

----------------------------------------------------------------------------
(* Properties *)

\* a thread between its GPIO.HIGH and its GPIO.LOW
Driving(t) == t.pc \in {"hold", "probe", "poll_sleep", "lower"}

\* C1: when a release thread ends, on any path and for any probe outcomes, its
\* output line is LOW (unless another thread for the same id is still driving it).
C1_LineLowWhenTaskEnds ==
    [][\A s \in Slots :
          (tasks[s].pc \notin EndStates /\ tasks'[s].pc \in EndStates)
          => \/ line'[PinOf(tasks'[s].id)] = "LOW"
             \/ \E u \in Slots \ {s} : tasks'[u].id = tasks'[s].id /\ Driving(tasks'[u])
      ]_vars

\* C2: when a thread that saw an unreachable probe before its deadline ends,
\* the status file records released = true for its id, whatever the start-up
\* history of the process.
C2_ReleasedIsPersisted ==
    [][\A s \in Slots :
          (tasks[s].pc \notin EndStates /\ tasks'[s].pc \in {"Released", "StoreRaised"})
          => /\ tasks'[s].id \in DOMAIN file'.releasedBuoys
             /\ file'.releasedBuoys[tasks'[s].id] = TRUE
      ]_vars

\* C3: a released flag that is true in the status file is never false again.
C3_ReleasedIsMonotonic ==
    [][\A k \in DOMAIN file.releasedBuoys :
          file.releasedBuoys[k] = TRUE
          => k \in DOMAIN file'.releasedBuoys /\ file'.releasedBuoys[k] = TRUE
      ]_vars

\* C4: after a restart that found released = true for an id in the status
\* file, the output line of that id is never driven from LOW to HIGH.
C4_NoRearmAfterRestart ==
    [][\A k \in Ids :
          ( /\ boots > 1
            /\ popup_status.bound
            /\ popup_status.loaded.releasedBuoys[k] = TRUE
            /\ line[PinOf(k)] = "LOW" )
          => line'[PinOf(k)] = "LOW"
      ]_vars

\* C5: a thread that ends TimedOut has never written the status file, and no
\* step of a thread that has declared its timeout changes the file.
C5_TimedOutWritesNothing ==
    [][\A s \in Slots :
          /\ tasks'[s].pc = "TimedOut" => tasks'[s].writes = 0
          /\ (tasks'[s].timeout /\ tasks'[s] # tasks[s]) => file' = file
      ]_vars

\* a thread has ended TimedOut while the file holds a released flag another thread set
C5_Witness ==
    \E s \in Slots :
        /\ tasks[s].pc = "TimedOut"
        /\ \E k \in DOMAIN file.releasedBuoys : file.releasedBuoys[k] = TRUE

\* C6: a release request for an id that is not in popups_pins is answered
\* "not accepted" and starts no thread, changes no line and leaves the file alone.
C6_UnknownIdRejected ==
    [][(resp'.op = "release" /\ resp'.id \notin DOMAIN popups_pins)
          => /\ resp'.success = FALSE
             /\ resp'.code = 500
             /\ tasks' = tasks
             /\ line' = line
             /\ file' = file
      ]_vars

\* an unregistered id has just been refused while a thread holds a line HIGH
C6_Witness ==
    /\ resp.op = "release"
    /\ resp.id \notin Ids
    /\ resp.success = FALSE
    /\ \E s \in Slots : tasks[s].pc = "hold" /\ line[PinOf(tasks[s].id)] = "HIGH"

\* C7 as claimed: the flag a permission query reports is 1 exactly when
\* now >= scheduled_time of the device.
C7_FlagIffNowPastSchedule ==
    (resp.op = "permission" /\ resp.code = 200)
    => (resp.permission[1].releaseFlag = 1 <=> now >= popups_timestamps[resp.id])

\* C7 amended: the flag a permission query reports is the one start-up
\* reconciliation left in the file: 1 exactly when the file loaded at start
\* already held 1 or scheduled_time < start time + offset_seconds; the time of
\* the query plays no part.
C7_FlagIsSetAtStartup ==
    (resp.op = "permission" /\ resp.code = 200)
    => /\ popup_status.bound
       /\ resp.permission[1].releaseFlag = 1
            <=> \/ popup_status.loaded.permission[resp.id].releaseFlag = 1
                \/ popups_timestamps[resp.id] < current_time + offset_seconds

\* a query reports 0 for a device whose scheduled time has passed since the start
C7_Witness ==
    /\ resp.op = "permission"
    /\ resp.code = 200
    /\ resp.permission[1].releaseFlag = 0
    /\ now >= popups_timestamps[resp.id]

\* C8: a permission query changes neither the file nor a line nor a thread,
\* and asked again for the same id it gives the same response.
C8_PermissionIsReadOnly ==
    [][resp'.op = "permission"
          => /\ file' = file
             /\ line' = line
             /\ tasks' = tasks
             /\ (resp.op = "permission" /\ resp.id = resp'.id) => resp' = resp
      ]_vars

\* a query has just been answered with a decision while a release thread runs
C8_Witness ==
    /\ resp.op = "permission"
    /\ resp.code = 200
    /\ \E s \in Slots : Driving(tasks[s])

\* C9: a permission query for a configured id returns a decision, and one for
\* any other id fails with 404, in every state the controller serves in.
C9_DecisionForConfiguredIds ==
    resp.op = "permission"
    => IF resp.id \in Ids THEN resp.code = 200 ELSE resp.code = 404

\* C10: a thread declares its timeout only on a reading of time.time() - init
\* above max_release_time, and a started thread whose probes all report
\* reachable reaches TimedOut, in every run of the process.
C10_TimedOutOnlyAfterDeadline ==
    /\ [](\A s \in Slots : tasks[s].timeout => tasks[s].elapsed > max_release_time)
    /\ \A s \in Slots :
          (tasks[s].pc = "start")
          ~> \/ tasks[s].pc = "TimedOut"
             \/ tasks[s].pc \in {"read", "write", "Released", "StoreRaised", "ProbeRaised"}
             \/ tasks[s].pc = "lower" /\ ~tasks[s].timeout

\* a thread has ended TimedOut
C10_Witness ==
    \E s \in Slots : tasks[s].pc = "TimedOut" /\ tasks[s].elapsed = max_release_time + 1

\* C11: when the first ping_host call after the hold sleep returns False, the
\* thread leaves the loop at once on the branch that is not the timeout: it
\* has slept once (the hold) and probed once; from there it lowers the line
\* and ends on that branch with the same counts, having made no deadline
\* reading (updating the status file after that is the subject of C2).
C11_FirstProbeUnreachable ==
    /\ [][\A s \in Slots :
              (tasks[s].pc = "probe" /\ tasks[s].probes = 0 /\ tasks'[s].reach = "False")
              => /\ tasks'[s].pc = "lower"
                 /\ ~tasks'[s].timeout
                 /\ tasks'[s].sleeps = 1
                 /\ tasks'[s].probes = 1
                 /\ tasks'[s].elapsed = 0
         ]_vars
    /\ \A s \in Slots :
          (tasks[s].pc = "lower" /\ tasks[s].probes = 1 /\ tasks[s].reach = "False")
          ~> /\ tasks[s].pc \in {"Released", "StoreRaised"}
             /\ tasks[s].sleeps = 1
             /\ tasks[s].probes = 1

\* a thread has ended Released after one sleep and one probe
C11_Witness ==
    \E s \in Slots :
        /\ tasks[s].pc = "Released"
        /\ tasks[s].sleeps = 1
        /\ tasks[s].probes = 1
        /\ tasks[s].reach = "False"

\* C12: right after a start that found no status file (popup_status is not
\* bound and no thread has been started yet), the file exists and its
\* releasedBuoys section has one entry per id of popups_pins, each false, and
\* no entry for another id.
C12_GeneratedFileHasConfiguredIds ==
    (phase = "serving" /\ ~popup_status.bound /\ \A s \in Slots : tasks[s].pc = "idle")
    => /\ file.exists
       /\ DOMAIN file.releasedBuoys = DOMAIN popups_pins
       /\ \A k \in DOMAIN file.releasedBuoys : file.releasedBuoys[k] = FALSE

\* the process has just started without a status file and serves its first request
C12_Witness ==
    /\ boots = 1
    /\ ~popup_status.bound
    /\ \A s \in Slots : tasks[s].pc = "idle"
    /\ file.exists
    /\ Cardinality(DOMAIN file.releasedBuoys) = Cardinality(DOMAIN ConfigGpio)
    /\ resp.op = "permission"

C14_LineHighDuringHold ==
    \A s \in Slots : tasks[s].pc = "hold" => line[PinOf(tasks[s].id)] = "HIGH"

\* C15: two threads for different ids that both left the loop on an
\* unreachable probe and have both ended after writing the file leave
\* released = true for both ids, as each would when running alone.
C15_DistinctIdsBothPersisted ==
    \A s \in Slots, u \in Slots :
        ( /\ tasks[s].pc = "Released"
          /\ tasks[u].pc = "Released"
          /\ tasks[s].id # tasks[u].id )
        => /\ file.releasedBuoys[tasks[s].id] = TRUE
           /\ file.releasedBuoys[tasks[u].id] = TRUE

\* the number of ping_host calls a thread can make before its deadline reading
ProbeBound == (max_release_time \div release_time) + 1

\* C16: a started thread whose ping_host calls all return ends, either after
\* an unreachable probe (Released: end of the branch of line 131) or with
\* its timeout declared (TimedOut), and it never makes more than ProbeBound
\* probes.
C16_EveryTaskEnds ==
    /\ [](\A s \in Slots : tasks[s].probes <= ProbeBound)
    /\ \A s \in Slots :
          (tasks[s].pc = "start")
          ~> \/ tasks[s].pc = "TimedOut" /\ tasks[s].timeout
             \/ tasks[s].pc \in {"Released", "StoreRaised"} /\ ~tasks[s].timeout
             \/ tasks[s].reach = "raise"

\* one thread has ended TimedOut after ProbeBound probes and another after an
\* unreachable probe
C16_Witness ==
    \E s \in Slots, u \in Slots :
        /\ tasks[s].pc = "TimedOut"
        /\ tasks[s].probes = ProbeBound
        /\ tasks[u].pc = "Released"

\* C17: ping_host never raises: every call made by a thread gave it True or
\* False, whatever subprocess.run did.
C17_ProbeNeverRaises ==
    \A s \in Slots : tasks[s].reach # "raise" /\ tasks[s].pc # "ProbeRaised"

\* C18 as claimed: a permission query for a device that was not due at the
\* last reconciliation reports releaseFlag = 0, also when an earlier run
\* reported 1 for it.
C18_FlagFollowsSchedule ==
    (resp.op = "permission" /\ resp.code = 200 /\ popups_release[resp.id] = 0)
    => resp.permission[1].releaseFlag = 0

\* C18 amended: the stored releaseFlag is one-way: no step, reconciliation
\* included, takes a flag that is 1 in the file back to 0, and a query
\* reports 1 for a device whose flag was 1 in the file loaded at start, due
\* or not.
C18_FlagIsOneWay ==
    /\ [][\A k \in DOMAIN file.permission :
              file.permission[k].releaseFlag = 1
              => /\ k \in DOMAIN file'.permission
                 /\ file'.permission[k].releaseFlag = 1
         ]_vars
    /\ []( ( /\ resp.op = "permission"
             /\ resp.code = 200
             /\ popup_status.loaded.permission[resp.id].releaseFlag = 1 )
           => resp.permission[1].releaseFlag = 1 )

\* after a restart with the date of a device moved so that it is no longer
\* due, a query still reports the flag 1 that the first run stored
C18_Witness ==
    /\ boots = 2
    /\ resp.op = "permission"
    /\ resp.code = 200
    /\ popups_release[resp.id] = 0
    /\ ~IsDue(popups_timestamps[resp.id], current_time)
    /\ resp.permission[1].releaseFlag = 1

\* C19: while the controller serves, a line is HIGH only if a thread for the
\* id of that line is between its GPIO.HIGH and its GPIO.LOW.
C19_HighOnlyWhileDriven ==
    phase = "serving"
    => \A k \in Ids :
          line[PinOf(k)] = "HIGH"
          => \E s \in Slots : tasks[s].id = k /\ Driving(tasks[s])

\* C20: every run of __main__ reaches app.run: a start on a file written by
\* an earlier run of the controller never raises.
C20_StartAlwaysServes ==
    phase = "serving"

====
